---- MODULE Spec2Model ----
(***************************************************************************)
(* Sun Compass: the solar event engine (server/src/suncalc.ts), the        *)
(* SunTime record (server/src/SunTime.ts), the time-zone lookup table      *)
(* (server/src/mathfuncs.ts) and the command-line entry points.            *)
(*                                                                         *)
(* Numbers.  The program computes in IEEE doubles; the model computes in   *)
(* integers:                                                               *)
(*   - instants are Unix milliseconds, as in the program, taken near the   *)
(*     epoch so that sums stay inside TLC's integers;                      *)
(*   - apparent solar time is held in milliseconds of the solar day        *)
(*     (the program's minutes times 60000), so 720 min is 43 200 000;      *)
(*   - elevation is held in units of 1/43200 degree.                       *)
(* The ephemeris (declination, equation of time) is an input of the model: *)
(* the declination dec (degrees) and the equation of time eot (minutes)    *)
(* are fixed over the day window, and the elevation over the day is the    *)
(* piecewise-linear curve through the elevation at apparent noon           *)
(* (90 - |lat - dec|) and at apparent midnight (|lat + dec| - 90).         *)
(***************************************************************************)
EXTENDS Integers, Sequences, FiniteSets, TLC

VARIABLES
    lat,        \* observer latitude, degrees
    long,       \* observer longitude, degrees
    dec,        \* solar declination over the window, degrees
    eot,        \* equation of time over the window, minutes
    zone,       \* the observer's civil time zone: [off0, at, off1]
    pc,         \* "idle", "events" (allSunEvents returned), "ints", "done"
    entry,      \* which entry point made the call
    start,      \* day window passed to allSunEvents
    end,
    maxMin,     \* the list maxAndMin returned
    events,     \* the list allSunEvents returned
    tz,         \* the time zone argument passed to intervals
    ints,       \* the five lists intervals returned
    outcome,    \* "none", "returned", "rejected", "threw"
    loop,       \* the bisection loop being run: its kind, t0, t1, iterations
    call        \* the library function called on its own, with its arguments and result

vars == <<lat, long, dec, eot, zone, pc, entry, start, end, maxMin, events, tz, ints, outcome,
          loop, call>>

----------------------------------------------------------------------------
(* Program constants *)

DAY_LENGTH == 86400000
MS_PER_MINUTE == 60000
MS_PER_HOUR == 3600000
HALF_WINDOW == 500

(* Units of the model *)
DEG == 12 * 3600                    \* elevation units per degree
NOON == 720 * MS_PER_MINUTE         \* apparent solar time 720 min
MIN(m) == m * MS_PER_MINUTE

SUNRISE_ANGLE == (-5 * DEG) \div 6
CIVIL_ANGLE == -6 * DEG
NAUTICAL_ANGLE == -12 * DEG
ASTRO_ANGLE == -18 * DEG

----------------------------------------------------------------------------
(* mathfuncs.ts *)

Abs(x) == IF x < 0 THEN -x ELSE x

\* JavaScript's % : the remainder has the sign of the dividend
JsRem(x, y) == IF x >= 0 THEN x % y ELSE -((-x) % y)

\* mutant: the remainder of JavaScript, negative for a negative x
mod_remainder(x, y) == JsRem(x, y)

mod(x, y) == JsRem(JsRem(x, y) + y, y)

clamp(x, min, max) ==
    IF x <= min THEN min
    ELSE IF x >= max THEN max
    ELSE x

----------------------------------------------------------------------------
(* Position model *)

\* apparent solar time at an instant, in ms after apparent midnight
solarTime(longitude, unix) ==
    mod(MIN(eot) + unix + MIN(longitude * 4), DAY_LENGTH)

\* unrefracted elevation at an instant
sunPosition(la, lo, date) ==
    LET st    == solarTime(lo, date)
        h     == Abs(st - NOON)
        peak  == 90 - Abs(la - dec)
        swing == 180 - Abs(la - dec) - Abs(la + dec)
    IN  peak * DEG - ((h \div 1000) * swing + ((h % 1000) * swing) \div 1000)

\* mf.ms(date) = Math.trunc(date.toMillis()); an instant is
\* [kind |-> "number" or "DateTime", ms |-> Unix milliseconds]
ms(date) == date.ms

\* [latitude, longitude] of the subsolar point, in elevation units
subsolarPoint(unix) ==
    LET subsolarLat == dec * DEG
        soltime0 == solarTime(0, unix)
        subsolarLong == mod(-((soltime0 * 9) \div 50), 360 * DEG) - 180 * DEG
    IN  <<subsolarLat, subsolarLong>>

\* element [0] of what sunPosition returns for an instant given as a number
\* or as a DateTime
sunPositionOf(la, lo, date) ==
    IF date.kind = "number" THEN sunPosition(la, lo, date.ms)
    ELSE subsolarPoint(ms(date))[1]

derivative(la, lo, unix) ==
    sunPosition(la, lo, unix + HALF_WINDOW) - sunPosition(la, lo, unix - HALF_WINDOW)

----------------------------------------------------------------------------
(* suncalc.ts: extrema of the elevation over the day window *)

RECURSIVE bisectMax(_, _, _, _)
bisectMax(la, lo, t0, t1) ==
    IF t1 - t0 > 1
    THEN LET tAvg == (t0 + t1) \div 2
         IN  IF derivative(la, lo, tAvg) >= 0
             THEN bisectMax(la, lo, tAvg, t1)
             ELSE bisectMax(la, lo, t0, tAvg)
    ELSE t0

RECURSIVE bisectMin(_, _, _, _)
bisectMin(la, lo, t0, t1) ==
    IF t1 - t0 > 1
    THEN LET tAvg == (t0 + t1) \div 2
         IN  IF derivative(la, lo, tAvg) <= 0
             THEN bisectMin(la, lo, tAvg, t1)
             ELSE bisectMin(la, lo, t0, tAvg)
    ELSE t0

\* mutant: nine sampling points three hours apart
checkpoints_nine(st, en) ==
    <<st, st + 3 * MS_PER_HOUR, st + 6 * MS_PER_HOUR, st + 9 * MS_PER_HOUR, st + 12 * MS_PER_HOUR,
      st + 15 * MS_PER_HOUR, st + 18 * MS_PER_HOUR, st + 21 * MS_PER_HOUR, en>>

\* the sampling points of maxAndMin (its local list "intervals")
checkpoints(st, en) ==
    <<st, st + 4 * MS_PER_HOUR, st + 8 * MS_PER_HOUR, st + 12 * MS_PER_HOUR,
      st + 16 * MS_PER_HOUR, st + 20 * MS_PER_HOUR, en>>

\* mutant: the upper end of the final bracket is pushed
extremumIn_upperEnd(la, lo, t0, t1) ==
    LET d0 == derivative(la, lo, t0)
        d1 == derivative(la, lo, t1)
    IN  IF d0 >= 0 /\ d1 < 0 THEN <<bisectMax(la, lo, t0, t1) + 1>>
        ELSE IF d0 <= 0 /\ d1 > 0 THEN <<bisectMin(la, lo, t0, t1) + 1>>
        ELSE <<>>

\* what one pass of the for loop pushes for the checkpoint interval (t0, t1)
extremumIn(la, lo, t0, t1) ==
    LET d0 == derivative(la, lo, t0)
        d1 == derivative(la, lo, t1)
    IN  IF d0 >= 0 /\ d1 < 0 THEN <<bisectMax(la, lo, t0, t1)>>
        ELSE IF d0 <= 0 /\ d1 > 0 THEN <<bisectMin(la, lo, t0, t1)>>
        ELSE <<>>

\* the extrema pushed for checkpoint intervals i, i+1, ...
RECURSIVE scanExtrema(_, _, _, _)
scanExtrema(la, lo, cps, i) ==
    IF i > Len(cps) - 1 THEN <<>>
    ELSE extremumIn(la, lo, cps[i], cps[i + 1]) \o scanExtrema(la, lo, cps, i + 1)

\* mutant: the end of the day is not appended
maxAndMin_withoutEnd(la, lo, st, en) ==
    <<st>> \o scanExtrema(la, lo, checkpoints(st, en), 1)

maxAndMin(la, lo, st, en) ==
    <<st>> \o scanExtrema(la, lo, checkpoints(st, en), 1) \o <<en>>

----------------------------------------------------------------------------
(* suncalc.ts: threshold crossings *)

SunTime(time, solarElevation, eventType) ==
    [time |-> time, solarElevation |-> solarElevation, eventType |-> eventType]

RECURSIVE bisectDawn(_, _, _, _, _)
bisectDawn(la, lo, angle, t0, t1) ==
    IF t1 - t0 > 1
    THEN LET avg == (t0 + t1) \div 2
         IN  IF sunPosition(la, lo, avg) < angle
             THEN bisectDawn(la, lo, angle, avg, t1)
             ELSE bisectDawn(la, lo, angle, t0, avg)
    ELSE t0

RECURSIVE bisectDusk(_, _, _, _, _)
bisectDusk(la, lo, angle, t0, t1) ==
    IF t1 - t0 > 1
    THEN LET avg == (t0 + t1) \div 2
         IN  IF sunPosition(la, lo, avg) < angle
             THEN bisectDusk(la, lo, angle, t0, avg)
             ELSE bisectDusk(la, lo, angle, avg, t1)
    ELSE t0

RECURSIVE dawnFrom(_, _, _, _, _, _)
dawnFrom(la, lo, angle, type, mm, i) ==
    IF i > Len(mm) - 1 THEN <<>>
    ELSE LET t0 == mm[i]
             t1 == mm[i + 1]
             s0 == sunPosition(la, lo, t0)
             s1 == sunPosition(la, lo, t1)
             here == IF s0 <= angle /\ s1 >= angle
                     THEN LET t == bisectDawn(la, lo, angle, t0, t1)
                          IN  <<SunTime(t, sunPosition(la, lo, t), type)>>
                     ELSE <<>>
         IN  here \o dawnFrom(la, lo, angle, type, mm, i + 1)

\* mutant: both ends of the final bracket are pushed
dawn_bothEnds(la, lo, angle, type, mm) ==
    LET found == dawnFrom(la, lo, angle, type, mm, 1)
    IN  found \o [i \in DOMAIN found |->
                    SunTime(found[i].time + 1, sunPosition(la, lo, found[i].time + 1), type)]

dawn(la, lo, angle, type, mm) == dawnFrom(la, lo, angle, type, mm, 1)

RECURSIVE duskFrom(_, _, _, _, _, _)
duskFrom(la, lo, angle, type, mm, i) ==
    IF i > Len(mm) - 1 THEN <<>>
    ELSE LET t0 == mm[i]
             t1 == mm[i + 1]
             s0 == sunPosition(la, lo, t0)
             s1 == sunPosition(la, lo, t1)
             here == IF s0 >= angle /\ s1 <= angle
                     THEN LET t == bisectDusk(la, lo, angle, t0, t1)
                          IN  <<SunTime(t, sunPosition(la, lo, t), type)>>
                     ELSE <<>>
         IN  here \o duskFrom(la, lo, angle, type, mm, i + 1)

\* mutant: dusk searches the rising brackets
dusk_rising(la, lo, angle, type, mm) == dawnFrom(la, lo, angle, type, mm, 1)

dusk(la, lo, angle, type, mm) == duskFrom(la, lo, angle, type, mm, 1)

\* mutant: sunrise is searched at a threshold below astronomical dawn
sunrise_belowAstro(la, lo, mm) == dawn(la, lo, ASTRO_ANGLE - DEG, "Sunrise", mm)

sunrise(la, lo, mm) == dawn(la, lo, SUNRISE_ANGLE, "Sunrise", mm)
sunset(la, lo, mm) == dusk(la, lo, SUNRISE_ANGLE, "Sunset", mm)
civilDawn(la, lo, mm) == dawn(la, lo, CIVIL_ANGLE, "Civil Dawn", mm)
civilDusk(la, lo, mm) == dusk(la, lo, CIVIL_ANGLE, "Civil Dusk", mm)
nauticalDawn(la, lo, mm) == dawn(la, lo, NAUTICAL_ANGLE, "Nautical Dawn", mm)
nauticalDusk(la, lo, mm) == dusk(la, lo, NAUTICAL_ANGLE, "Nautical Dusk", mm)
astroDawn(la, lo, mm) == dawn(la, lo, ASTRO_ANGLE, "Astro Dawn", mm)
astroDusk(la, lo, mm) == dusk(la, lo, ASTRO_ANGLE, "Astro Dusk", mm)

----------------------------------------------------------------------------
(* suncalc.ts: solar noon and solar midnight *)

\* mod(st24 - st00 - 720, 1440) + 720
stDiffOf(st00, st24) == mod(st24 - st00 - NOON, DAY_LENGTH) + NOON

\* (a / solarTimeRate) * 60000, rounded down, where
\* solarTimeRate = stDiff / (en - st) * 60000: the real time, in ms, in which
\* apparent solar time advances by a.  All three quantities are whole minutes,
\* and the quotient is formed on the minutes.  A window of length 0 makes the
\* rate infinite and the quotient 0, as in the program.
atRate(a, st, en, stDiff) ==
    LET p == (a \div MS_PER_MINUTE) * ((en - st) \div MS_PER_MINUTE)
        s == stDiff \div MS_PER_MINUTE
    IN  (p \div s) * MS_PER_MINUTE + ((p % s) * MS_PER_MINUTE) \div s

\* x += (720 - solarTime(long, x)) * 60000, then Math.floor(clamp(x, start, end-1)).
\* Apparent solar time advances 1 ms per ms in the model, so the refined value
\* is the same whether x is rounded down before or after the refinement.
\* mutant: the refined estimate is not clamped into the window
refineNoon_unclamped(lo, x, st, en) ==
    x + (NOON - solarTime(lo, x))

\* mutant: the estimate is refined towards solar midnight
refineNoon_toMidnight(lo, x, st, en) ==
    clamp(x + (NOON - mod(solarTime(lo, x) + NOON, DAY_LENGTH)), st, en - 1)

refineNoon(lo, x, st, en) ==
    clamp(x + (NOON - solarTime(lo, x)), st, en - 1)

refineMidnight(lo, x, st, en) ==
    clamp(x + (NOON - mod(solarTime(lo, x) + NOON, DAY_LENGTH)), st, en - 1)

noonEvent(la, lo, t) == SunTime(t, sunPosition(la, lo, t), "Solar Noon")
midnightEvent(la, lo, t) == SunTime(t, sunPosition(la, lo, t), "Solar Midnight")

\* mutant: st00 < 720 where the program has st00 <= 720
solarNoon_strict(la, lo, st, en) ==
    LET st00 == solarTime(lo, st)
        st24 == solarTime(lo, en)
        stDiff == stDiffOf(st00, st24)
    IN  IF st00 > MIN(600) /\ st00 < MIN(720) /\ st24 > MIN(720) /\ st24 < MIN(840)
        THEN LET solarNoon0 == refineNoon(lo, st + atRate(NOON - st00, st, en, stDiff), st, en)
                 solarNoon1 == refineNoon(lo, en + atRate(NOON - st24, st, en, stDiff), st, en)
             IN  <<noonEvent(la, lo, solarNoon0), noonEvent(la, lo, solarNoon1)>>
        ELSE IF st00 > MIN(720) /\ st00 < MIN(840) /\ st24 > MIN(600) /\ st24 <= MIN(720)
        THEN <<>>
        ELSE LET noon == refineNoon(lo, st + atRate(mod(NOON - st00, DAY_LENGTH), st, en, stDiff), st, en)
             IN  <<noonEvent(la, lo, noon)>>

solarNoon(la, lo, st, en) ==
    LET st00 == solarTime(lo, st)
        st24 == solarTime(lo, en)
        stDiff == stDiffOf(st00, st24)
    IN  IF st00 > MIN(600) /\ st00 <= MIN(720) /\ st24 > MIN(720) /\ st24 < MIN(840)
        THEN LET solarNoon0 == refineNoon(lo, st + atRate(NOON - st00, st, en, stDiff), st, en)
                 solarNoon1 == refineNoon(lo, en + atRate(NOON - st24, st, en, stDiff), st, en)
             IN  <<noonEvent(la, lo, solarNoon0), noonEvent(la, lo, solarNoon1)>>
        ELSE IF st00 > MIN(720) /\ st00 < MIN(840) /\ st24 > MIN(600) /\ st24 <= MIN(720)
        THEN <<>>
        ELSE LET noon == refineNoon(lo, st + atRate(mod(NOON - st00, DAY_LENGTH), st, en, stDiff), st, en)
             IN  <<noonEvent(la, lo, noon)>>

\* mutant: no midnight is returned under the condition of "0 solar noons"
solarMidnight_noneLikeNoon(la, lo, st, en) ==
    LET st00 == solarTime(lo, st)
        st24 == solarTime(lo, en)
        stDiff == stDiffOf(st00, st24)
    IN  IF st00 > MIN(720) /\ st00 < MIN(840) /\ st24 > MIN(600) /\ st24 <= MIN(720)
        THEN <<>>
        ELSE LET midnight == refineMidnight(lo, en + atRate(-st24, st, en, stDiff), st, en)
             IN  <<midnightEvent(la, lo, midnight)>>

solarMidnight(la, lo, st, en) ==
    LET st00 == solarTime(lo, st)
        st24 == solarTime(lo, en)
        stDiff == stDiffOf(st00, st24)
    IN  IF st00 > MIN(1320) /\ st24 < MIN(120)
        THEN LET solarMidnight0 == refineMidnight(lo, st + atRate(DAY_LENGTH - st00, st, en, stDiff), st, en)
                 solarMidnight1 == refineMidnight(lo, en + atRate(-st24, st, en, stDiff), st, en)
             IN  <<midnightEvent(la, lo, solarMidnight0), midnightEvent(la, lo, solarMidnight1)>>
        ELSE IF st00 < MIN(120) /\ st24 > MIN(1320)
        THEN <<>>
        ELSE LET midnight == refineMidnight(lo, en + atRate(-st24, st, en, stDiff), st, en)
             IN  <<midnightEvent(la, lo, midnight)>>

----------------------------------------------------------------------------
(* suncalc.ts: allSunEvents *)

\* Array.prototype.sort with the comparator a.valueOf() - b.valueOf(): a stable
\* sort on SunTime.time
RECURSIVE insertByTime(_, _)
insertByTime(sorted, e) ==
    IF sorted = <<>> THEN <<e>>
    ELSE IF sorted[Len(sorted)].time <= e.time THEN Append(sorted, e)
    ELSE Append(insertByTime(SubSeq(sorted, 1, Len(sorted) - 1), e), sorted[Len(sorted)])

RECURSIVE sortByTime(_)
sortByTime(s) ==
    IF s = <<>> THEN <<>>
    ELSE insertByTime(sortByTime(SubSeq(s, 1, Len(s) - 1)), s[Len(s)])

\* the list built on line 491, before it is sorted
collectEvents(la, lo, st, en, mm) ==
    solarMidnight(la, lo, st, en)
    \o astroDawn(la, lo, mm) \o nauticalDawn(la, lo, mm) \o civilDawn(la, lo, mm)
    \o sunrise(la, lo, mm)
    \o solarNoon(la, lo, st, en)
    \o sunset(la, lo, mm)
    \o civilDusk(la, lo, mm) \o nauticalDusk(la, lo, mm) \o astroDusk(la, lo, mm)

\* mutant: the list is returned as collected, without the sort
allSunEvents_unsorted(la, lo, st, en) ==
    collectEvents(la, lo, st, en, maxAndMin(la, lo, st, en))

allSunEvents(la, lo, st, en) ==
    sortByTime(collectEvents(la, lo, st, en, maxAndMin(la, lo, st, en)))

\* mf.latLongEcef: the observer's frame, a function of latitude and longitude
\* alone (here the pair itself)
latLongEcef(la, lo) == <<la, lo>>

\* mutant: the extrema of the previous call are kept and used again
allSunEventsFrom_cached(la, lo, st, en, ecef) ==
    sortByTime(collectEvents(la, lo, st, en,
                             IF maxMin # <<>> THEN maxMin ELSE maxAndMin(la, lo, st, en)))

\* allSunEvents with its optional fifth argument; <<>> stands for undefined.
\* The searches take the observer's position from the frame.
allSunEventsFrom(la, lo, st, en, ecef) ==
    LET frame == IF ecef = <<>> THEN latLongEcef(la, lo) ELSE ecef
    IN  allSunEvents(frame[1], frame[2], st, en)

sunEventsDay(la, lo, dayStart, nextDayStart) == allSunEvents(la, lo, dayStart, nextDayStart)

----------------------------------------------------------------------------
(* Time zones.  A civil zone has offset off0 (minutes) before the instant  *)
(* "at" and off1 from it on; off0 = off1 is a zone without a change.       *)

zoneOffset(z, unix) == IF unix >= z.at THEN z.off1 ELSE z.off0

\* date.startOf("day") and date.plus({days: 1}).startOf("day") for the local
\* day that begins at local midnight of day 0; the zone's change, if any,
\* falls inside that day
dayStartOf(z) == -MIN(z.off0)
nextDayStartOf(z) == DAY_LENGTH - MIN(z.off1)

\* mathfuncs.timeZoneLookupTable for a table whose first day starts at "first"
timeZoneLookupTable(z, first) ==
    <<[unix |-> first, offset |-> zoneOffset(z, first), change |-> FALSE]>>
    \o (IF z.off0 # z.off1 /\ first < z.at
        THEN <<[unix |-> z.at, offset |-> z.off1, change |-> TRUE]>>
        ELSE <<>>)

\* the value of "offset" after the loop has seen entries i, i+1, ...
RECURSIVE offsetFrom(_, _, _, _)
offsetFrom(unix, table, i, offset) ==
    IF i > Len(table) THEN offset
    ELSE IF unix >= table[i].unix THEN offsetFrom(unix, table, i + 1, table[i].offset)
    ELSE offset

getOffsetFromTable(unix, table) == offsetFrom(unix, table, 1, 0)

\* SunTime.timeOfDay; timeZone is [kind |-> "iana", zone |-> z] for an IANA
\* name and [kind |-> "table", table |-> t] for a lookup table
timeOfDay(event, timeZone) ==
    IF timeZone.kind = "iana"
    THEN mod(event.time + MIN(zoneOffset(timeZone.zone, event.time)), DAY_LENGTH)
    ELSE LET offset == getOffsetFromTable(event.time, timeZone.table)
             adjustedTimestamp == event.time + offset * MS_PER_MINUTE
         IN  mod(adjustedTimestamp, DAY_LENGTH)

----------------------------------------------------------------------------
(* suncalc.ts: intervals.  Regimes are numbered as in the program:          *)
(* 0 day, 1 civil twilight, 2 nautical twilight, 3 astronomical twilight,  *)
(* 4 night; list k of the result is element k + 1 of the sequence.          *)

isDawnDusk(event) ==
    event.eventType # "Solar Noon" /\ event.eventType # "Solar Midnight"

\* the regime of the gap that ends with an event of this type (lines 569-573, 579-583)
regimeBefore(etype) ==
    IF etype = "Sunset" THEN 0
    ELSE IF etype = "Sunrise" \/ etype = "Civil Dusk" THEN 1
    ELSE IF etype = "Civil Dawn" \/ etype = "Nautical Dusk" THEN 2
    ELSE IF etype = "Nautical Dawn" \/ etype = "Astro Dusk" THEN 3
    ELSE IF etype = "Astro Dawn" THEN 4
    ELSE -1

\* mutant: the last gap is labelled like a gap that ends with the event
regimeAfter_asBefore(etype) == regimeBefore(etype)

\* the regime of the gap that follows the last event (lines 587-591)
regimeAfter(etype) ==
    IF etype = "Sunrise" THEN 0
    ELSE IF etype = "Civil Dawn" \/ etype = "Sunset" THEN 1
    ELSE IF etype = "Nautical Dawn" \/ etype = "Civil Dusk" THEN 2
    ELSE IF etype = "Astro Dawn" \/ etype = "Nautical Dusk" THEN 3
    ELSE IF etype = "Astro Dusk" THEN 4
    ELSE -1

\* mutant: night is tested against -12 instead of -18
regimeOfElevation_night12(sunAngle) ==
    IF sunAngle < NAUTICAL_ANGLE THEN 4
    ELSE IF sunAngle < CIVIL_ANGLE THEN 2
    ELSE IF sunAngle < SUNRISE_ANGLE THEN 1
    ELSE 0

\* the regime of a day without dawn or dusk (lines 560-565)
regimeOfElevation(sunAngle) ==
    IF sunAngle < ASTRO_ANGLE THEN 4
    ELSE IF sunAngle < NAUTICAL_ANGLE THEN 3
    ELSE IF sunAngle < CIVIL_ANGLE THEN 2
    ELSE IF sunAngle < SUNRISE_ANGLE THEN 1
    ELSE 0

\* the pushes of the program, in program order, as <<regime, span>>
intervalPushes(newSunEvents, timeZone) ==
    LET n == Len(newSunEvents)
        tod(i) == timeOfDay(newSunEvents[i], timeZone)
        first == <<regimeBefore(newSunEvents[1].eventType), <<0, tod(1)>>>>
        middle == [i \in 1 .. n - 1 |->
                     <<regimeBefore(newSunEvents[i + 1].eventType), <<tod(i), tod(i + 1)>>>>]
        last == <<regimeAfter(newSunEvents[n].eventType), <<tod(n), DAY_LENGTH>>>>
    IN  <<first>> \o middle \o <<last>>

spansOf(pushes, k) ==
    LET mine == SelectSeq(pushes, LAMBDA p : p[1] = k)
    IN  [i \in 1 .. Len(mine) |-> mine[i][2]]

intervals(sunEvents, timeZone) ==
    LET newSunEvents == SelectSeq(sunEvents, isDawnDusk)
    IN  IF newSunEvents = <<>>
        THEN LET r == regimeOfElevation(sunEvents[1].solarElevation)
             IN  [k \in 1 .. 5 |-> IF k = r + 1 THEN <<<<0, DAY_LENGTH>>>> ELSE <<>>]
        ELSE LET pushes == intervalPushes(newSunEvents, timeZone)
             IN  [k \in 1 .. 5 |-> spansOf(pushes, k - 1)]

----------------------------------------------------------------------------
(* suncalc.ts: intervalsSvg.  The result is <<dIntervals, cIntervals,      *)
(* nIntervals, aIntervals>>; list k of the program is element k + 1.       *)

\* 1 for dIntervals, 2 for cIntervals, 3 for nIntervals, 4 for aIntervals
bandOf(etype) ==
    CASE etype \in {"Sunrise", "Sunset"} -> 1
      [] etype \in {"Civil Dawn", "Civil Dusk"} -> 2
      [] etype \in {"Nautical Dawn", "Nautical Dusk"} -> 3
      [] etype \in {"Astro Dawn", "Astro Dusk"} -> 4

isDawnType(etype) == etype \in {"Astro Dawn", "Nautical Dawn", "Civil Dawn", "Sunrise"}

\* the four lists of a day without dawn or dusk (lines 618-623)
bandsOfElevation(s) ==
    LET whole == <<<<0, DAY_LENGTH>>>>
    IN  IF s < ASTRO_ANGLE THEN <<<<>>, <<>>, <<>>, <<>>>>
        ELSE IF s < NAUTICAL_ANGLE THEN <<<<>>, <<>>, <<>>, whole>>
        ELSE IF s < CIVIL_ANGLE THEN <<<<>>, <<>>, whole, whole>>
        ELSE IF s < SUNRISE_ANGLE THEN <<<<>>, whole, whole, whole>>
        ELSE <<whole, whole, whole, whole>>

\* mutant: the first event pushes an interval to its own band only
firstBands_ownBand(etype, tod) ==
    [k \in 1 .. 4 |->
        IF k # bandOf(etype) THEN <<>>
        ELSE IF isDawnType(etype) THEN <<<<tod, DAY_LENGTH>>>> ELSE <<<<0, tod>>>>]

\* "push the first interval" (lines 634-661)
firstBands(etype, tod) ==
    LET j == bandOf(etype)
    IN  [k \in 1 .. 4 |->
            IF k > j THEN <<<<0, DAY_LENGTH>>>>
            ELSE IF k < j THEN <<>>
            ELSE IF isDawnType(etype) THEN <<<<tod, DAY_LENGTH>>>> ELSE <<<<0, tod>>>>]

\* the loop of lines 663-674 from event i; writing element [1] of the last
\* span of an empty list is a TypeError
RECURSIVE laterBands(_, _, _, _)
laterBands(bands, newSunEvents, i, timeZone) ==
    IF i > Len(newSunEvents) THEN [threw |-> FALSE, bands |-> bands]
    ELSE LET etype == newSunEvents[i].eventType
             tod == timeOfDay(newSunEvents[i], timeZone)
             j == bandOf(etype)
         IN  IF isDawnType(etype)
             THEN laterBands([bands EXCEPT ![j] = Append(@, <<tod, DAY_LENGTH>>)],
                             newSunEvents, i + 1, timeZone)
             ELSE IF bands[j] = <<>> THEN [threw |-> TRUE, bands |-> bands]
             ELSE laterBands([bands EXCEPT ![j][Len(bands[j])][2] = tod],
                             newSunEvents, i + 1, timeZone)

intervalsSvg(sunEvents, timeZone) ==
    LET newSunEvents == SelectSeq(sunEvents, isDawnDusk)
    IN  IF newSunEvents = <<>>
        THEN [threw |-> FALSE, bands |-> bandsOfElevation(sunEvents[1].solarElevation)]
        ELSE laterBands(firstBands(newSunEvents[1].eventType, timeOfDay(newSunEvents[1], timeZone)),
                        newSunEvents, 2, timeZone)

----------------------------------------------------------------------------
(* suncalc.ts: lengths.  The result is <<t0, t1, t2, t3>>.                  *)

RECURSIVE totalLength(_)
totalLength(spans) ==
    IF spans = <<>> THEN 0
    ELSE (spans[1][2] - spans[1][1]) + totalLength(Tail(spans))

\* the value returned for a day without dawn or dusk (lines 700-704)
lengthsOfElevation(s) ==
    IF s < ASTRO_ANGLE THEN <<0, 0, 0, 0>>
    ELSE IF s < NAUTICAL_ANGLE THEN <<0, 0, 0, DAY_LENGTH>>
    ELSE IF s < CIVIL_ANGLE THEN <<0, 0, DAY_LENGTH, DAY_LENGTH>>
    ELSE IF s < SUNRISE_ANGLE THEN <<0, DAY_LENGTH, DAY_LENGTH, DAY_LENGTH>>
    ELSE <<DAY_LENGTH, DAY_LENGTH, DAY_LENGTH, DAY_LENGTH>>

\* lengths: "added" lists, in program order, the index of durations that each
\* += statement adds to (-1 when no branch of the chain matches) and the
\* pair of times of day whose difference is added
lengths(sunEvents, timeZone) ==
    LET newSunEvents == SelectSeq(sunEvents, isDawnDusk)
        n == Len(newSunEvents)
        tod(i) == timeOfDay(newSunEvents[i], timeZone)
        before(etype) ==
            IF etype = "Nautical Dawn" \/ etype = "Astro Dusk" THEN 3
            ELSE IF etype = "Civil Dawn" \/ etype = "Nautical Dusk" THEN 2
            ELSE IF etype = "Sunrise" \/ etype = "Civil Dusk" THEN 1
            ELSE IF etype = "Sunset" THEN 0
            ELSE -1
        after(etype) ==
            IF etype = "Astro Dawn" \/ etype = "Nautical Dusk" THEN 3
            ELSE IF etype = "Nautical Dawn" \/ etype = "Civil Dusk" THEN 2
            ELSE IF etype = "Civil Dawn" \/ etype = "Sunset" THEN 1
            ELSE IF etype = "Sunrise" THEN 0
            ELSE -1
        added == <<<<before(newSunEvents[1].eventType), <<0, tod(1)>>>>>>
                 \o [i \in 1 .. n - 1 |-> <<before(newSunEvents[i + 1].eventType), <<tod(i), tod(i + 1)>>>>]
                 \o <<<<after(newSunEvents[n].eventType), <<tod(n), DAY_LENGTH>>>>>>
        durations(k) ==
            LET mine == SelectSeq(added, LAMBDA p : p[1] = k)
            IN  totalLength([i \in DOMAIN mine |-> mine[i][2]])
    IN  IF n = 0 THEN lengthsOfElevation(sunEvents[1].solarElevation)
        ELSE <<durations(0),
               durations(0) + durations(1),
               durations(0) + durations(1) + durations(2),
               durations(0) + durations(1) + durations(2) + durations(3)>>

----------------------------------------------------------------------------
(* Inputs *)

Latitudes == {45, 60, 89, 90, -91}
Declinations == {-23, -15, -8, -3, 0, 23}
LongStep == 8
Longitudes == {-LongStep, 0, LongStep}
EquationsOfTime == {0}

NoChange == [off0 |-> 0, at |-> 0, off1 |-> 0]
ChangeInstants == {MS_PER_HOUR, 5 * MS_PER_HOUR + MIN(30)}
\* a zone whose clocks run an hour ahead all day
HourAhead == [off0 |-> 60, at |-> 0, off1 |-> 60]
\* clocks go back from 01:30 to 00:30 local time
EarlyFallBack == [off0 |-> 60, at |-> MIN(30), off1 |-> 0]
Zones ==
    {NoChange, HourAhead, EarlyFallBack}
    \cup {[off0 |-> 0, at |-> a, off1 |-> 60] : a \in ChangeInstants}    \* clocks go forward: a 23 h day
    \cup {[off0 |-> 60, at |-> a, off1 |-> 0] : a \in ChangeInstants}    \* clocks go back: a 25 h day

\* day windows passed to allSunEvents directly, as <<start, end>>
Windows ==
    {<<0, 0>>, <<0, -MS_PER_HOUR>>, <<0, MS_PER_HOUR>>, <<0, 19 * MS_PER_HOUR>>,
     <<0, 20 * MS_PER_HOUR>>, <<0, DAY_LENGTH>>, <<13 * MS_PER_HOUR, 33 * MS_PER_HOUR>>}

\* time zone arguments passed to intervals for the observer's zone z
TimeZoneArgs(z) ==
    {[kind |-> "iana", zone |-> z],
     [kind |-> "table", table |-> timeZoneLookupTable(z, dayStartOf(z))],
     [kind |-> "table", table |-> timeZoneLookupTable(z, nextDayStartOf(z))],
     [kind |-> "table", table |-> <<>>]}

Instants == {0, 6 * MS_PER_HOUR, 12 * MS_PER_HOUR + MIN(32)}
NoInts == [k \in 1 .. 5 |-> <<>>]
NoTz == [kind |-> "none"]
NoLoop == [kind |-> "none"]
NoCall == [fn |-> "none"]

----------------------------------------------------------------------------
(* The state machine *)

Init ==
    /\ lat \in Latitudes
    /\ long \in Longitudes
    /\ dec \in Declinations
    /\ eot \in EquationsOfTime
    /\ zone \in Zones
    /\ pc = "idle"
    /\ entry = "none"
    /\ start = 0
    /\ end = 0
    /\ maxMin = <<>>
    /\ events = <<>>
    /\ tz = NoTz
    /\ ints = NoInts
    /\ outcome = "none"
    /\ loop = NoLoop
    /\ call = NoCall

\* mutant: the pole itself passes the check
validCoordinates_strict(la, lo) ==
    IF Abs(la) > 90 THEN FALSE
    ELSE IF Abs(lo) > 180 THEN FALSE
    ELSE TRUE

\* the coordinate check of the command-line scripts
validCoordinates(la, lo) ==
    IF Abs(la) >= 90 THEN FALSE
    ELSE IF Abs(lo) > 180 THEN FALSE
    ELSE TRUE

\* scripts/rise-set: check the coordinates, then print sunEventsDay for the
\* observer's local day
RiseSet ==
    /\ pc = "idle"
    /\ entry' = "rise-set"
    /\ IF validCoordinates(lat, long)
       THEN /\ start' = dayStartOf(zone)
            /\ end' = nextDayStartOf(zone)
            /\ maxMin' = maxAndMin(lat, long, start', end')
            /\ events' = sunEventsDay(lat, long, start', end')
            /\ outcome' = "returned"
       ELSE /\ outcome' = "rejected"
            /\ UNCHANGED <<start, end, maxMin, events>>
    /\ pc' = "done"
    /\ UNCHANGED <<lat, long, dec, eot, zone, tz, ints, loop, call>>

\* scripts/generate-svg: check the coordinates, then allSunEvents for each
\* local day of the year (one day here)
GenerateSvg ==
    /\ pc = "idle"
    /\ entry' = "generate-svg"
    /\ IF validCoordinates(lat, long)
       THEN /\ start' = dayStartOf(zone)
            /\ end' = nextDayStartOf(zone)
            /\ maxMin' = maxAndMin(lat, long, start', end')
            /\ events' = allSunEvents(lat, long, start', end')
            /\ outcome' = "returned"
            /\ pc' = "events"
       ELSE /\ outcome' = "rejected"
            /\ pc' = "done"
            /\ UNCHANGED <<start, end, maxMin, events>>
    /\ UNCHANGED <<lat, long, dec, eot, zone, tz, ints, loop, call>>

\* allSunEvents called directly with a day window
CallAllSunEvents(st, en) ==
    /\ pc = "idle"
    /\ entry' = "api"
    /\ start' = st
    /\ end' = en
    /\ maxMin' = maxAndMin(lat, long, st, en)
    /\ events' = allSunEvents(lat, long, st, en)
    /\ outcome' = "returned"
    /\ pc' = "events"
    /\ UNCHANGED <<lat, long, dec, eot, zone, tz, ints, loop, call>>

\* intervals called on the event series with a time zone argument;
\* sunEvents[0] of an empty series is undefined, and reading its
\* solarElevation throws
CallIntervals(timeZone) ==
    /\ pc = "events"
    /\ tz' = timeZone
    /\ IF events = <<>>
       THEN /\ outcome' = "threw"
            /\ ints' = ints
       ELSE /\ outcome' = "returned"
            /\ ints' = intervals(events, timeZone)
    /\ pc' = "ints"
    /\ UNCHANGED <<lat, long, dec, eot, zone, entry, start, end, maxMin, events, loop, call>>

\* intervalsSvg called on the event series with a time zone argument, as
\* the chart does for every day; it reads sunEvents[0] like intervals
CallIntervalsSvg(timeZone) ==
    /\ pc = "events"
    /\ tz' = timeZone
    /\ IF events = <<>>
       THEN /\ outcome' = "threw"
            /\ call' = [fn |-> "intervalsSvg"]
       ELSE LET r == intervalsSvg(events, timeZone)
            IN  /\ outcome' = (IF r.threw THEN "threw" ELSE "returned")
                /\ call' = [fn |-> "intervalsSvg", result |-> r.bands]
    /\ pc' = "svg"
    /\ UNCHANGED <<lat, long, dec, eot, zone, entry, start, end, maxMin, events, ints, loop>>

\* sunPosition called for one instant, given as a number and as a DateTime
CallSunPosition(unix) ==
    /\ pc = "idle"
    /\ entry' = "api"
    /\ call' = [fn |-> "sunPosition", unix |-> unix,
                ofNumber |-> sunPositionOf(lat, long, [kind |-> "number", ms |-> unix]),
                ofDateTime |-> sunPositionOf(lat, long, [kind |-> "DateTime", ms |-> unix])]
    /\ outcome' = "returned"
    /\ pc' = "done"
    /\ UNCHANGED <<lat, long, dec, eot, zone, start, end, maxMin, events, tz, ints, loop>>

\* lengths called on the event series with a time zone argument; the
\* result of intervals for the same arguments is kept beside it
CallLengths(timeZone) ==
    /\ pc = "events"
    /\ tz' = timeZone
    /\ IF events = <<>>
       THEN /\ outcome' = "threw"
            /\ call' = [fn |-> "lengths"]
       ELSE /\ outcome' = "returned"
            /\ call' = [fn |-> "lengths", result |-> lengths(events, timeZone),
                        regimes |-> intervals(events, timeZone)]
    /\ pc' = "lengths"
    /\ UNCHANGED <<lat, long, dec, eot, zone, entry, start, end, maxMin, events, ints, loop>>

Next ==
    \/ RiseSet
    \/ \E unix \in Instants : CallSunPosition(unix)
    \/ GenerateSvg
    \/ \E w \in Windows : CallAllSunEvents(w[1], w[2])
    \/ \E t \in TimeZoneArgs(zone) : CallIntervals(t)
    \/ \E t \in TimeZoneArgs(zone) : CallIntervalsSvg(t)
    \/ \E t \in TimeZoneArgs(zone) : CallLengths(t)

Spec == Init /\ [][Next]_vars

----------------------------------------------------------------------------
(* solarNoon and solarMidnight on their own: every apparent solar time at  *)
(* the start of the window, to the minute, and day windows of 22 h to 26 h *)

MaxEot == 3
NoonLongitudes == -179 .. 180
NoonEquationsOfTime == 0 .. MaxEot
\* window lengths in minutes: 1320 < D < 1560
Durations == {1321, 1380, 1439, 1440, 1441, 1500, 1559}

InitNoon ==
    /\ lat = 45
    /\ long \in NoonLongitudes
    /\ dec = 0
    /\ eot \in NoonEquationsOfTime
    /\ zone = NoChange
    /\ pc = "idle"
    /\ entry = "none"
    /\ start = 0
    /\ end = 0
    /\ maxMin = <<>>
    /\ events = <<>>
    /\ tz = NoTz
    /\ ints = NoInts
    /\ outcome = "none"
    /\ loop = NoLoop
    /\ call = NoCall

CallSolarNoon(st, en) ==
    /\ pc = "idle"
    /\ entry' = "solarNoon"
    /\ start' = st
    /\ end' = en
    /\ events' = solarNoon(lat, long, st, en)
    /\ outcome' = "returned"
    /\ pc' = "done"
    /\ UNCHANGED <<lat, long, dec, eot, zone, maxMin, tz, ints, loop, call>>

CallSolarMidnight(st, en) ==
    /\ pc = "idle"
    /\ entry' = "solarMidnight"
    /\ start' = st
    /\ end' = en
    /\ events' = solarMidnight(lat, long, st, en)
    /\ outcome' = "returned"
    /\ pc' = "done"
    /\ UNCHANGED <<lat, long, dec, eot, zone, maxMin, tz, ints, loop, call>>

NextNoon ==
    \/ \E d \in Durations : CallSolarNoon(0, MIN(d))
    \/ \E d \in Durations : CallSolarMidnight(0, MIN(d))

SpecNoon == InitNoon /\ [][NextNoon]_vars

----------------------------------------------------------------------------
(* The bisection loops of maxAndMin, dawn and dusk, one iteration per step *)

MaxIterations == 32
BisectLatitudes == {45, 89}
BisectWindows == {w \in Windows : w[1] < w[2]}
Angles == {SUNRISE_ANGLE, CIVIL_ANGLE, NAUTICAL_ANGLE, ASTRO_ANGLE}

\* mutant: a point a quarter of the way, which is t0 itself for a narrow bracket
midpoint_quarter(t0, t1) == t0 + (t1 - t0) \div 4

\* Math.floor((t0 + t1) / 2)
midpoint(t0, t1) == (t0 + t1) \div 2

\* one pass through the body of the while loop: the new <<t0, t1>>
loopBody(kind, la, lo, angle, t0, t1) ==
    LET avg == midpoint(t0, t1)
    IN  CASE kind = "max"  -> IF derivative(la, lo, avg) >= 0 THEN <<avg, t1>> ELSE <<t0, avg>>
          [] kind = "min"  -> IF derivative(la, lo, avg) <= 0 THEN <<avg, t1>> ELSE <<t0, avg>>
          [] kind = "dawn" -> IF sunPosition(la, lo, avg) < angle THEN <<avg, t1>> ELSE <<t0, avg>>
          [] kind = "dusk" -> IF sunPosition(la, lo, avg) < angle THEN <<t0, avg>> ELSE <<avg, t1>>

InitBisect ==
    /\ lat \in BisectLatitudes
    /\ long \in Longitudes
    /\ dec \in Declinations
    /\ eot \in EquationsOfTime
    /\ zone = NoChange
    /\ pc = "idle"
    /\ entry = "none"
    /\ start = 0
    /\ end = 0
    /\ maxMin = <<>>
    /\ events = <<>>
    /\ tz = NoTz
    /\ ints = NoInts
    /\ outcome = "none"
    /\ loop = NoLoop
    /\ call = NoCall

\* maxAndMin reaches checkpoint interval i and finds a sign change there
EnterExtremumLoop(st, en, i) ==
    LET t0 == checkpoints(st, en)[i]
        t1 == checkpoints(st, en)[i + 1]
        d0 == derivative(lat, long, t0)
        d1 == derivative(lat, long, t1)
    IN  /\ pc = "idle"
        /\ (d0 >= 0 /\ d1 < 0) \/ (d0 <= 0 /\ d1 > 0)
        /\ entry' = "maxAndMin"
        /\ start' = st
        /\ end' = en
        /\ loop' = [kind |-> IF d0 >= 0 /\ d1 < 0 THEN "max" ELSE "min", angle |-> 0,
                    i |-> i, t0 |-> t0, t1 |-> t1, width |-> t1 - t0, n |-> 0]
        /\ pc' = "loop"
        /\ UNCHANGED <<lat, long, dec, eot, zone, maxMin, events, tz, ints, outcome, call>>

\* dawn or dusk reaches pair i of maxMin and finds the angle bracketed there
EnterCrossingLoop(st, en, kind, angle, i) ==
    LET mm == maxAndMin(lat, long, st, en)
    IN  /\ pc = "idle"
        /\ i \in 1 .. Len(mm) - 1
        /\ LET s0 == sunPosition(lat, long, mm[i])
               s1 == sunPosition(lat, long, mm[i + 1])
           IN  IF kind = "dawn" THEN s0 <= angle /\ s1 >= angle
                                ELSE s0 >= angle /\ s1 <= angle
        /\ entry' = kind
        /\ start' = st
        /\ end' = en
        /\ maxMin' = mm
        /\ loop' = [kind |-> kind, angle |-> angle, i |-> i, t0 |-> mm[i], t1 |-> mm[i + 1],
                    width |-> mm[i + 1] - mm[i], n |-> 0]
        /\ pc' = "loop"
        /\ UNCHANGED <<lat, long, dec, eot, zone, events, tz, ints, outcome, call>>

\* mutant: dawn and dusk bisect in place, on the elements of maxMin
LoopIteration_inPlace ==
    /\ pc = "loop"
    /\ loop.t1 - loop.t0 > 1
    /\ loop.n < MaxIterations
    /\ LET next == loopBody(loop.kind, lat, long, loop.angle, loop.t0, loop.t1)
       IN  /\ loop' = [loop EXCEPT !.t0 = next[1], !.t1 = next[2], !.n = loop.n + 1]
           /\ maxMin' = IF loop.kind \in {"dawn", "dusk"}
                        THEN [maxMin EXCEPT ![loop.i] = next[1], ![loop.i + 1] = next[2]]
                        ELSE maxMin
    /\ UNCHANGED <<lat, long, dec, eot, zone, pc, entry, start, end, events, tz, ints,
                   outcome, call>>

\* while (t1 - t0 > 1) { ... }: t0 and t1 are the locals of the search
LoopIteration ==
    /\ pc = "loop"
    /\ loop.t1 - loop.t0 > 1
    /\ loop.n < MaxIterations
    /\ LET next == loopBody(loop.kind, lat, long, loop.angle, loop.t0, loop.t1)
       IN  loop' = [loop EXCEPT !.t0 = next[1], !.t1 = next[2], !.n = loop.n + 1]
    /\ UNCHANGED <<lat, long, dec, eot, zone, pc, entry, start, end, maxMin, events, tz, ints,
                   outcome, call>>

\* the loop condition fails: t0 is pushed
LoopExit ==
    /\ pc = "loop"
    /\ ~(loop.t1 - loop.t0 > 1)
    /\ pc' = "done"
    /\ outcome' = "returned"
    /\ UNCHANGED <<lat, long, dec, eot, zone, entry, start, end, maxMin, events, tz, ints,
                   loop, call>>

NextBisect ==
    \/ \E w \in BisectWindows, i \in 1 .. 6 : EnterExtremumLoop(w[1], w[2], i)
    \/ \E w \in BisectWindows, kind \in {"dawn", "dusk"}, angle \in Angles, i \in 1 .. 7 :
          EnterCrossingLoop(w[1], w[2], kind, angle, i)
    \/ LoopIteration
    \/ LoopExit

\* the loops are run to completion: nothing else is scheduled
SpecBisect == InitBisect /\ [][NextBisect]_vars /\ WF_vars(LoopIteration) /\ WF_vars(LoopExit)

----------------------------------------------------------------------------
(* The chart module: intervalsToPolygon.  A point is <<x, y>>, a segment   *)
(* [a |-> point, b |-> point]; coordinates are whole numbers.              *)

\* Math.round(v / SNAP) * SNAP for a whole number v: Math.round is floor(v + 1/2)
snap(v) == (2 * v + 1) \div 2

Min2(a, b) == IF a <= b THEN a ELSE b
Max2(a, b) == IF a >= b THEN a ELSE b

\* the comparator (u[0]-v[0]) || (u[1]-v[1]) <= 0
spanBefore(u, v) == u[1] < v[1] \/ (u[1] = v[1] /\ u[2] <= v[2])

RECURSIVE insertSpan(_, _)
insertSpan(sorted, sp) ==
    IF sorted = <<>> THEN <<sp>>
    ELSE IF spanBefore(sorted[Len(sorted)], sp) THEN Append(sorted, sp)
    ELSE Append(insertSpan(SubSeq(sorted, 1, Len(sorted) - 1), sp), sorted[Len(sorted)])

RECURSIVE sortSpans(_)
sortSpans(spans) ==
    IF spans = <<>> THEN <<>>
    ELSE insertSpan(sortSpans(SubSeq(spans, 1, Len(spans) - 1)), spans[Len(spans)])

\* the merging loop of normalizeSpans, from element i of the sorted list
RECURSIVE mergeSpans(_, _, _)
mergeSpans(out, sorted, i) ==
    IF i > Len(sorted) THEN out
    ELSE LET a == sorted[i][1]
             b == sorted[i][2]
         IN  IF out = <<>> \/ a > out[Len(out)][2]
             THEN mergeSpans(Append(out, <<a, b>>), sorted, i + 1)
             ELSE mergeSpans([out EXCEPT ![Len(out)][2] = Max2(out[Len(out)][2], b)], sorted, i + 1)

\* mutant: the sorted spans are returned without merging
normalizeSpans_unmerged(spans) ==
    sortSpans([i \in DOMAIN spans |->
                 <<Min2(spans[i][1], spans[i][2]), Max2(spans[i][1], spans[i][2])>>])

normalizeSpans(spans) ==
    IF spans = <<>> THEN <<>>
    ELSE mergeSpans(<<>>,
                    sortSpans([i \in DOMAIN spans |->
                                 <<Min2(spans[i][1], spans[i][2]), Max2(spans[i][1], spans[i][2])>>]),
                    1)

\* the events of a span list: a start (d = 1) and an end (d = -1) per span
RECURSIVE spanEvents(_)
spanEvents(A) ==
    IF A = <<>> THEN <<>>
    ELSE <<[y |-> A[1][1], d |-> 1], [y |-> A[1][2], d |-> -1]>> \o spanEvents(Tail(A))

\* the comparator (u.y - v.y) || (v.d - u.d) <= 0: starts before ends at the same y
eventBefore(u, v) == u.y < v.y \/ (u.y = v.y /\ u.d >= v.d)

RECURSIVE insertEvent(_, _)
insertEvent(sorted, e) ==
    IF sorted = <<>> THEN <<e>>
    ELSE IF eventBefore(sorted[Len(sorted)], e) THEN Append(sorted, e)
    ELSE Append(insertEvent(SubSeq(sorted, 1, Len(sorted) - 1), e), sorted[Len(sorted)])

RECURSIVE sortEvents(_)
sortEvents(evts) ==
    IF evts = <<>> THEN <<>>
    ELSE insertEvent(sortEvents(SubSeq(evts, 1, Len(evts) - 1)), evts[Len(evts)])

\* the sweep of xorSpans from event i, with the loop's variables inside and y0
RECURSIVE xorSweep(_, _, _, _)
xorSweep(evts, i, inside, y0) ==
    IF i > Len(evts) THEN <<>>
    ELSE (IF inside = 1 THEN <<<<y0, evts[i].y>>>> ELSE <<>>)
         \o xorSweep(evts, i + 1, (inside + evts[i].d) % 2, evts[i].y)

xorSpans(A, B) == xorSweep(sortEvents(spanEvents(A) \o spanEvents(B)), 1, 0, 0)

keyOf(p) == <<snap(p[1]), snap(p[2])>>

segKey(u, v) ==
    LET ux == snap(u[1])
        uy == snap(u[2])
        vx == snap(v[1])
        vy == snap(v[2])
    IN  IF ux < vx \/ (ux = vx /\ uy <= vy) THEN <<<<ux, uy>>, <<vx, vy>>>>
        ELSE <<<<vx, vy>>, <<ux, uy>>>>

Seg(a, b) == [a |-> a, b |-> b]

RECURSIVE flatten(_)
flatten(ss) == IF ss = <<>> THEN <<>> ELSE ss[1] \o flatten(Tail(ss))

\* bottom and top cap of every span of every column (x is 0-based)
horizontalSegs(cols) ==
    flatten([c \in DOMAIN cols |->
        flatten([k \in DOMAIN cols[c] |->
            <<Seg(<<c - 1, cols[c][k][1]>>, <<c, cols[c][k][1]>>),
              Seg(<<c - 1, cols[c][k][2]>>, <<c, cols[c][k][2]>>)>>])])

\* at every column boundary x = 0 .. W, the spans on one side only
verticalSegs(cols) ==
    LET W == Len(cols)
    IN  flatten([x1 \in 1 .. W + 1 |->
            LET x == x1 - 1
                L == IF x > 0 THEN cols[x] ELSE <<>>
                R == IF x < W THEN cols[x + 1] ELSE <<>>
                diff == xorSpans(L, R)
            IN  [k \in DOMAIN diff |-> Seg(<<x, diff[k][1]>>, <<x, diff[k][2]>>)]])

buildSegs(cols) ==
    LET all == verticalSegs(cols) \o horizontalSegs(cols)
    IN  [i \in DOMAIN all |-> Seg(keyOf(all[i].a), keyOf(all[i].b))]

\* adj.get(keyOf(p)): the neighbours of p in the order addAdj pushed them
neighbours(segs, p) ==
    flatten([i \in DOMAIN segs |->
        (IF segs[i].a = p THEN <<segs[i].b>> ELSE <<>>)
        \o (IF segs[i].b = p THEN <<segs[i].a>> ELSE <<>>)])

\* the while (true) loop of one walk; closed tells which break ended it
RECURSIVE walk(_, _, _, _, _)
walk(segs, used, polygon, prev, curr) ==
    LET polygon1 == Append(polygon, curr)
        free == SelectSeq(neighbours(segs, curr),
                          LAMBDA cand : cand # prev /\ segKey(curr, cand) \notin used)
    IN  IF free = <<>>
        THEN [polygon |-> polygon1, used |-> used, closed |-> FALSE]
        ELSE LET next == free[1]
                 used1 == used \cup {segKey(curr, next)}
             IN  IF next = polygon1[1]
                 THEN [polygon |-> polygon1, used |-> used1, closed |-> TRUE]
                 ELSE walk(segs, used1, polygon1, curr, next)

\* the seeding loop from segment i: every walk, with the outcome of the test
\* polygon.length >= 4 that decides whether its polygon is pushed
RECURSIVE stitch(_, _, _)
stitch(segs, i, used) ==
    IF i > Len(segs) THEN <<>>
    ELSE LET startEdge == segKey(segs[i].a, segs[i].b)
         IN  IF startEdge \in used THEN stitch(segs, i + 1, used)
             ELSE LET w == walk(segs, used \cup {startEdge}, <<segs[i].a>>, segs[i].a, segs[i].b)
                  IN  <<[polygon |-> w.polygon, closed |-> w.closed,
                         pushed |-> Len(w.polygon) >= 4]>>
                      \o stitch(segs, i + 1, w.used)

\* the walks behind the polygons that intervalsToPolygon returns
ringWalks(columns) ==
    SelectSeq(stitch(buildSegs([x \in DOMAIN columns |-> normalizeSpans(columns[x])]), 1, {}),
              LAMBDA w : w.pushed)

intervalsToPolygon(columns) ==
    LET walks == ringWalks(columns)
    IN  [i \in DOMAIN walks |-> walks[i].polygon]

PolyYs == 0 .. 2
PolySpans == PolyYs \X PolyYs
PolyColumns == {<<>>} \cup {<<u>> : u \in PolySpans} \cup {<<u, v>> : u, v \in PolySpans}
PolyInputs ==
    {<<c>> : c \in PolyColumns} \cup {<<c, e>> : c, e \in PolyColumns}
    \cup {<<<<u, v, w>>>> : u, v, w \in PolySpans}

InitLibrary ==
    /\ lat = 45
    /\ long = 0
    /\ dec = 0
    /\ eot = 0
    /\ zone = NoChange
    /\ pc = "idle"
    /\ entry = "none"
    /\ start = 0
    /\ end = 0
    /\ maxMin = <<>>
    /\ events = <<>>
    /\ tz = NoTz
    /\ ints = NoInts
    /\ outcome = "none"
    /\ loop = NoLoop
    /\ call = NoCall

CallIntervalsToPolygon(columns) ==
    /\ pc = "idle"
    /\ entry' = "intervalsToPolygon"
    /\ call' = [fn |-> "intervalsToPolygon", intervals |-> columns,
                segs |-> buildSegs([x \in DOMAIN columns |-> normalizeSpans(columns[x])]),
                walks |-> ringWalks(columns), result |-> intervalsToPolygon(columns),
                every |-> stitch(buildSegs([x \in DOMAIN columns |-> normalizeSpans(columns[x])]), 1, {})]
    /\ outcome' = "returned"
    /\ pc' = "done"
    /\ UNCHANGED <<lat, long, dec, eot, zone, start, end, maxMin, events, tz, ints, loop>>

NextPolygon == \E columns \in PolyInputs : CallIntervalsToPolygon(columns)

SpecPolygon == InitLibrary /\ [][NextPolygon]_vars

----------------------------------------------------------------------------
(* SunTime.timeOfDay on its own, with lookup tables sorted by unix *)

TableInstants == {-2 * MS_PER_HOUR, 0, 2 * MS_PER_HOUR}
TableOffsets == {-90, 0, 60}
TableEntries == [unix : TableInstants, offset : TableOffsets, change : {TRUE}]
SortedTables ==
    {<<a>> : a \in TableEntries}
    \cup {t \in {<<a, b>> : a, b \in TableEntries} : t[1].unix <= t[2].unix}
EventTimes == {-2 * MS_PER_HOUR - 1, -2 * MS_PER_HOUR, -1, 0, 1, 2 * MS_PER_HOUR,
               DAY_LENGTH - 1, DAY_LENGTH + MIN(45)}

CallTimeOfDay(time, table) ==
    /\ pc = "idle"
    /\ entry' = "timeOfDay"
    /\ call' = [fn |-> "timeOfDay", time |-> time, table |-> table,
                result |-> timeOfDay(SunTime(time, 0, "Sunrise"), [kind |-> "table", table |-> table])]
    /\ outcome' = "returned"
    /\ pc' = "done"
    /\ UNCHANGED <<lat, long, dec, eot, zone, start, end, maxMin, events, tz, ints, loop>>

NextTimeOfDay == \E time \in EventTimes, table \in SortedTables : CallTimeOfDay(time, table)

SpecTimeOfDay == InitLibrary /\ [][NextTimeOfDay]_vars

----------------------------------------------------------------------------
(* allSunEvents called twice with the same arguments, with or without the  *)
(* observer's frame, and with another query in between                     *)

\* the same observers and days as for the bisection loops
InitRepeat == InitBisect

\* the other observer, whose query may come in between
OtherLatitude == 60

FirstCall(st, en, withEcef) ==
    /\ pc = "idle"
    /\ entry' = "api"
    /\ start' = st
    /\ end' = en
    /\ maxMin' = maxAndMin(lat, long, st, en)
    /\ events' = allSunEventsFrom(lat, long, st, en,
                                  IF withEcef THEN latLongEcef(lat, long) ELSE <<>>)
    /\ call' = [fn |-> "allSunEvents", first |-> events', second |-> <<>>,
                ecefPassed |-> <<withEcef>>]
    /\ outcome' = "returned"
    /\ pc' = "first"
    /\ UNCHANGED <<lat, long, dec, eot, zone, tz, ints, loop>>

\* another observer's day is computed and its intervals taken
OtherQuery(st, en) ==
    /\ pc = "first"
    /\ maxMin' = maxAndMin(OtherLatitude, long, st, en)
    /\ events' = allSunEventsFrom(OtherLatitude, long, st, en, <<>>)
    /\ tz' = [kind |-> "iana", zone |-> zone]
    /\ ints' = IF events' = <<>> THEN ints ELSE intervals(events', tz')
    /\ pc' = "between"
    /\ UNCHANGED <<lat, long, dec, eot, zone, entry, start, end, outcome, loop, call>>

SecondCall(withEcef) ==
    /\ pc \in {"first", "between"}
    /\ maxMin' = maxAndMin(lat, long, start, end)
    /\ events' = allSunEventsFrom(lat, long, start, end,
                                  IF withEcef THEN latLongEcef(lat, long) ELSE <<>>)
    /\ call' = [call EXCEPT !.second = events', !.ecefPassed = Append(@, withEcef)]
    /\ pc' = "done"
    /\ UNCHANGED <<lat, long, dec, eot, zone, entry, start, end, tz, ints, outcome, loop>>

NextRepeat ==
    \/ \E w \in BisectWindows, withEcef \in BOOLEAN : FirstCall(w[1], w[2], withEcef)
    \/ \E w \in BisectWindows : OtherQuery(w[1], w[2])
    \/ \E withEcef \in BOOLEAN : SecondCall(withEcef)

SpecRepeat == InitRepeat /\ [][NextRepeat]_vars

----------------------------------------------------------------------------
(* Reference: the instants of [st, en) at which apparent solar time is     *)
(* "target", counted from the solar clock itself                           *)

crossings(lo, st, en, target) ==
    LET first == mod(target - solarTime(lo, st), DAY_LENGTH)   \* ms from st to the first one
    IN  IF en - st <= first THEN 0
        ELSE 1 + (en - st - 1 - first) \div DAY_LENGTH

----------------------------------------------------------------------------
(* C3: for a window over which apparent solar time advances by D minutes,  *)
(* 1320 < D < 1560, solarNoon returns as many events as there are instants *)
(* in [start, end) at which apparent solar time is 720: two exactly when   *)
(* 600 < st00 <= 720 and 720 < st24 < 840, none exactly when               *)
(* 720 < st00 < 840 and 600 < st24 <= 720, and one otherwise.              *)
C3_NoonCount ==
    (pc = "done" /\ entry = "solarNoon") =>
        LET st00 == solarTime(long, start)
            st24 == solarTime(long, end)
            n == crossings(long, start, end, NOON)
            two == st00 > MIN(600) /\ st00 <= MIN(720) /\ st24 > MIN(720) /\ st24 < MIN(840)
            none == st00 > MIN(720) /\ st00 < MIN(840) /\ st24 > MIN(600) /\ st24 <= MIN(720)
        IN  /\ Len(events) = n
            /\ (n = 2) <=> two
            /\ (n = 0) <=> none
            /\ (n = 1) <=> (~two /\ ~none)
            /\ \A i \in DOMAIN events : events[i].eventType = "Solar Noon"

\* a window that starts exactly at apparent noon and holds a second noon
C3_Witness ==
    /\ pc = "done" /\ entry = "solarNoon"
    /\ solarTime(long, start) = NOON
    /\ Len(events) = 2

(* C4: solarMidnight returns, for the apparent solar times (st00, st24),   *)
(* as many events as solarNoon returns for the times shifted by 720 min,   *)
(* ((st00 + 720) mod 1440, (st24 + 720) mod 1440): the same three-way      *)
(* split with the threshold at 0/1440.  Shifting the longitude by 180      *)
(* degrees shifts apparent solar time by 720 min.                           *)
C4_MidnightSplitsLikeNoon ==
    (pc = "done" /\ entry = "solarMidnight") =>
        Len(events) = Len(solarNoon(lat, long + 180, start, end))

----------------------------------------------------------------------------
(* Vocabulary of the properties *)

DawnDuskKinds ==
    {"Astro Dawn", "Nautical Dawn", "Civil Dawn", "Sunrise",
     "Sunset", "Civil Dusk", "Nautical Dusk", "Astro Dusk"}

\* allSunEvents has returned its list
eventsReturned ==
    \/ pc \in {"events", "ints"}
    \/ pc = "done" /\ entry = "rise-set" /\ outcome = "returned"

\* the state in which allSunEvents has just returned
eventsJustReturned ==
    \/ pc = "events"
    \/ pc = "done" /\ entry = "rise-set" /\ outcome = "returned"

\* the window is the observer's local calendar day
calendarDay == entry \in {"rise-set", "generate-svg"}

\* the time zone argument denotes the observer's zone: its IANA name, or the
\* lookup table built for it from the start of the day (generate-svg.ts:48)
observersZone ==
    \/ tz = [kind |-> "iana", zone |-> zone]
    \/ tz = [kind |-> "table", table |-> timeZoneLookupTable(zone, dayStartOf(zone))]

countOf(s, kind) == Cardinality({i \in DOMAIN s : s[i].eventType = kind})
occurrences(s, e) == Cardinality({i \in DOMAIN s : s[i] = e})
insideWindow(s) == \A i \in DOMAIN s : start <= s[i].time /\ s[i].time <= end - 1

allSpans == ints[1] \o ints[2] \o ints[3] \o ints[4] \o ints[5]

----------------------------------------------------------------------------
(* C1: for the event series of one calendar day and the observer's time   *)
(* zone (IANA name or lookup table), the spans of the five lists of        *)
(* intervals() are pairwise non-overlapping and together cover             *)
(* [0, 86 400 000) exactly once, also on a day on which the UTC offset     *)
(* changes between two events.                                              *)
C1_SpansPartitionDay ==
    (pc = "ints" /\ calendarDay /\ observersZone /\ outcome = "returned") =>
        /\ \A i \in DOMAIN allSpans :
              0 <= allSpans[i][1] /\ allSpans[i][1] <= allSpans[i][2] /\ allSpans[i][2] <= DAY_LENGTH
        /\ \A i, j \in DOMAIN allSpans :
              i # j => (allSpans[i][2] <= allSpans[j][1] \/ allSpans[j][2] <= allSpans[i][1])
        /\ totalLength(allSpans) = DAY_LENGTH

(* C2: the event series of one calendar day holds at most one event of     *)
(* each of the eight dawn/dusk kinds.                                      *)
C2_AtMostOnePerKind ==
    (eventsReturned /\ calendarDay) =>
        \A kind \in DawnDuskKinds : countOf(events, kind) <= 1

(* C2 as amended: a kind occurs at most once per bracket of consecutive    *)
(* maxMin entries: two events of the same kind are separated by an         *)
(* extremum that maxAndMin found, and there are at most as many of a kind  *)
(* as there are brackets.                                                   *)
C2_OnePerBracket ==
    eventsReturned =>
        /\ \A kind \in DawnDuskKinds : countOf(events, kind) <= Len(maxMin) - 1
        /\ \A i, j \in DOMAIN events :
              (i < j /\ events[i].eventType = events[j].eventType
                     /\ events[i].eventType \in DawnDuskKinds) =>
                 \E k \in 2 .. Len(maxMin) - 1 :
                     events[i].time <= maxMin[k] /\ maxMin[k] <= events[j].time

\* a local day with two sunsets: one just after midnight, one before the next
C2_Witness ==
    /\ eventsReturned /\ calendarDay
    /\ countOf(events, "Sunset") = 2

(* C5: allSunEvents returns exactly the events of solarMidnight, the three *)
(* dawn searches, sunrise, solarNoon, sunset and the three dusk searches   *)
(* (none added, dropped or duplicated), in non-decreasing order of time.   *)
C5_MergedAndSorted ==
    eventsJustReturned =>
        LET found == collectEvents(lat, long, start, end, maxMin)
        IN  /\ Len(events) = Len(found)
            /\ \A i \in DOMAIN found : occurrences(events, found[i]) = occurrences(found, found[i])
            /\ \A i \in 1 .. Len(events) - 1 : events[i].time <= events[i + 1].time

\* a series of at least ten events that the sort had to reorder
C5_Witness ==
    /\ eventsJustReturned
    /\ Len(events) >= 10
    /\ events # collectEvents(lat, long, start, end, maxMin)

(* C6: every event returned for integer start < end has                    *)
(* start <= time <= end - 1.                                                *)
C6_EventsInsideWindow ==
    (eventsReturned /\ Abs(lat) < 90 /\ start < end) => insideWindow(events)

(* C6 as amended: the same for a window of at least 20 hours, the span of  *)
(* the checkpoints of maxAndMin; a noon or midnight estimate outside the   *)
(* window is clamped to start or to end - 1.                                *)
C6_EventsInsideDayWindow ==
    (eventsReturned /\ start + 20 * MS_PER_HOUR <= end) => insideWindow(events)

\* a noon estimate after the window, clamped to end - 1
C6_Witness ==
    /\ eventsReturned /\ Abs(lat) < 90 /\ start + 20 * MS_PER_HOUR <= end
    /\ \E i \in DOMAIN events :
          /\ events[i].eventType = "Solar Noon"
          /\ events[i].time = end - 1
          /\ solarTime(long, events[i].time) # NOON

(* C7: a series with a SolarNoon or SolarMidnight event and no dawn/dusk   *)
(* event gives one span [0, 86 400 000] in the regime of the elevation e   *)
(* of its first event (night e < -18, astronomical -18 <= e < -12,         *)
(* nautical -12 <= e < -6, civil -6 <= e < -5/6, day e >= -5/6), and the   *)
(* other four lists are empty.                                              *)
C7_SingleRegime ==
    (pc = "ints" /\ events # <<>> /\ \A i \in DOMAIN events : ~isDawnDusk(events[i])) =>
        LET e == events[1].solarElevation
            whole == <<<<0, DAY_LENGTH>>>>
        IN  /\ outcome = "returned"
            /\ ints[1] = (IF 6 * e >= -5 * DEG THEN whole ELSE <<>>)
            /\ ints[2] = (IF e >= -6 * DEG /\ 6 * e < -5 * DEG THEN whole ELSE <<>>)
            /\ ints[3] = (IF e >= -12 * DEG /\ e < -6 * DEG THEN whole ELSE <<>>)
            /\ ints[4] = (IF e >= -18 * DEG /\ e < -12 * DEG THEN whole ELSE <<>>)
            /\ ints[5] = (IF e < -18 * DEG THEN whole ELSE <<>>)

\* a day of astronomical twilight from midnight to midnight
C7_Witness ==
    /\ pc = "ints" /\ events # <<>>
    /\ \A i \in DOMAIN events : ~isDawnDusk(events[i])
    /\ ints[4] = <<<<0, DAY_LENGTH>>>>

(* C8: a window with end <= start passed to allSunEvents is rejected by a  *)
(* precondition check: no event list is computed from it.                   *)
C8_InvertedWindowRejected ==
    (entry = "api" /\ pc # "idle" /\ Abs(lat) < 90 /\ end <= start) =>
        (outcome = "rejected" /\ events = <<>>)

C10_UncoveredInstantIsError ==
    (pc = "ints" /\ tz.kind = "table" /\ Abs(lat) < 90 /\ start + 20 * MS_PER_HOUR <= end
        /\ \E i \in DOMAIN events :
              /\ isDawnDusk(events[i])
              /\ (tz.table = <<>> \/ events[i].time < tz.table[1].unix)) =>
        outcome # "returned"

----------------------------------------------------------------------------
\* the least k with 2^k >= w (0 for w <= 1)
RECURSIVE ceilLog2(_)
ceilLog2(w) == IF w <= 1 THEN 0 ELSE 1 + ceilLog2((w + 1) \div 2)

(* C11: every bisection loop of maxAndMin, dawn and dusk terminates: each  *)
(* iteration picks an integer midpoint strictly between t0 and t1, so      *)
(* t1 - t0 strictly decreases while t0 < t1 is kept, and a bracket of      *)
(* width w reaches width <= 1 after at most ceil(log2 w) iterations.       *)
C11_BisectionTerminates ==
    /\ [][(pc = "loop" /\ pc' = "loop") =>
             /\ loop.t0 < midpoint(loop.t0, loop.t1) /\ midpoint(loop.t0, loop.t1) < loop.t1
             /\ loop'.t1 - loop'.t0 < loop.t1 - loop.t0
             /\ loop'.t0 < loop'.t1]_vars
    /\ [](pc \in {"loop", "done"} =>
             loop.n + ceilLog2(loop.t1 - loop.t0) <= ceilLog2(loop.width))
    /\ ((pc = "loop") ~> (pc = "done" /\ loop.t1 - loop.t0 <= 1))

\* a bracket of more than an hour that took all of its ceil(log2 w) iterations
C11_Witness ==
    /\ pc = "done"
    /\ loop.width > MS_PER_HOUR
    /\ loop.n = ceilLog2(loop.width)
    /\ loop.t1 - loop.t0 = 1

----------------------------------------------------------------------------
\* some generated segment joins p and q
joined(p, q) == \E i \in DOMAIN call.segs : segKey(call.segs[i].a, call.segs[i].b) = segKey(p, q)

(* C12: every ring emitted by intervalsToPolygon is closed: its walk ends  *)
(* by returning to its starting vertex, never at a vertex without an       *)
(* unused outgoing edge, and cyclically consecutive ring points are joined *)
(* by a generated segment; for any columns, also with touching or          *)
(* zero-length spans.                                                       *)
C12_RingsClosed ==
    (pc = "done" /\ call.fn = "intervalsToPolygon") =>
        \A r \in DOMAIN call.walks :
            LET ring == call.walks[r].polygon
            IN  /\ call.walks[r].closed
                /\ \A k \in DOMAIN ring : joined(ring[k], ring[(k % Len(ring)) + 1])

----------------------------------------------------------------------------
\* the part of the day covered by a list of half-open spans, as sorted
\* disjoint non-touching spans
coverOf(spans) ==
    mergeSpans(<<>>, sortSpans(SelectSeq(spans, LAMBDA sp : sp[1] < sp[2])), 1)

\* every instant covered by A is covered by B (both as coverOf gives them)
coveredBy(A, B) ==
    \A i \in DOMAIN A : \E j \in DOMAIN B : B[j][1] <= A[i][1] /\ A[i][2] <= B[j][2]

\* spans of regimes 0 .. k of intervals(), in one list
regimesUpTo(lists, k) == flatten([r \in 1 .. k + 1 |-> lists[r]])

(* C13: for the series of allSunEvents for a calendar day and the          *)
(* observer's time zone (IANA name or lookup table), band k of             *)
(* intervalsSvg (k = 0 .. 3) covers exactly the union of the spans         *)
(* intervals() gives to regimes 0 .. k, so the bands are nested.           *)
C13_BandsAreCumulativeRegimes ==
    (pc = "svg" /\ calendarDay /\ observersZone /\ events # <<>>) =>
        /\ outcome = "returned"
        /\ \A k \in 0 .. 3 :
              coverOf(call.result[k + 1]) = coverOf(regimesUpTo(intervals(events, tz), k))
        /\ \A k \in 0 .. 2 :
              coveredBy(coverOf(call.result[k + 1]), coverOf(call.result[k + 2]))

----------------------------------------------------------------------------
(* C14: sunPosition returns the same elevation (element [0] of the pair)   *)
(* whether the instant is given as a Unix-millisecond number or as a       *)
(* DateTime for the same instant.                                           *)
C14_SamePositionForNumberAndDateTime ==
    (pc = "done" /\ call.fn = "sunPosition" /\ Abs(lat) < 90) =>
        call.ofNumber = call.ofDateTime

----------------------------------------------------------------------------
\* the entries of a table at or before an instant
entriesUpTo(table, time) == {i \in DOMAIN table : table[i].unix <= time}

\* the last of a non-empty set of indices
lastOf(idx) == CHOOSE i \in idx : \A j \in idx : j <= i

(* C15: for an integer timestamp and a lookup table sorted by ascending    *)
(* unix that covers it, timeOfDay returns an integer in [0, 86 399 999]    *)
(* equal to (time + 60 000 x offset) mod 86 400 000, offset being that of  *)
(* the latest entry with unix <= time, also when time + 60 000 x offset is *)
(* negative.                                                                *)
C15_TimeOfDayFromTable ==
    (pc = "done" /\ call.fn = "timeOfDay" /\ entriesUpTo(call.table, call.time) # {}) =>
        LET offset == call.table[lastOf(entriesUpTo(call.table, call.time))].offset
        IN  /\ call.result \in 0 .. DAY_LENGTH - 1
            /\ call.result = (call.time + 60000 * offset) % DAY_LENGTH

\* a covered instant whose local timestamp is negative, under the second entry
C15_Witness ==
    /\ pc = "done" /\ call.fn = "timeOfDay"
    /\ Len(call.table) = 2
    /\ call.table[2].unix <= call.time
    /\ call.time + 60000 * call.table[2].offset < 0
    /\ call.result = DAY_LENGTH + call.time + 60000 * call.table[2].offset

----------------------------------------------------------------------------
\* the time of the only event of a kind in a series
timeOfOnly(s, kind) == s[CHOOSE i \in DOMAIN s : s[i].eventType = kind].time

----------------------------------------------------------------------------
----------------------------------------------------------------------------
elev(t) == sunPosition(lat, long, t)

\* the pairs of consecutive times of maxMin with t0 < t1
properPairs == {i \in 1 .. Len(maxMin) - 1 : maxMin[i] < maxMin[i + 1]}

\* dawn or dusk on the single pair i of maxMin
dawnOnPair(angle, i) == dawn(lat, long, angle, "Dawn", <<maxMin[i], maxMin[i + 1]>>)
duskOnPair(angle, i) == dusk(lat, long, angle, "Dusk", <<maxMin[i], maxMin[i + 1]>>)

(* C18: for each consecutive pair (t0, t1) of maxMin with t0 < t1 and      *)
(* elev(t0) <= angle <= elev(t1), dawn emits one event of the requested    *)
(* type at an integer t in [t0, t1) with elev(t) <= angle <= elev(t + 1);  *)
(* for elev(t0) >= angle >= elev(t1), dusk emits one event at t in         *)
(* [t0, t1) with elev(t) >= angle >= elev(t + 1); a pair that does not     *)
(* bracket the angle in that direction emits nothing.                       *)
C18_CrossingsBracketed ==
    eventsJustReturned =>
        \A i \in properPairs, angle \in Angles :
            LET t0 == maxMin[i]
                t1 == maxMin[i + 1]
                up == dawnOnPair(angle, i)
                down == duskOnPair(angle, i)
            IN  /\ IF elev(t0) <= angle /\ angle <= elev(t1)
                   THEN /\ Len(up) = 1
                        /\ up[1].eventType = "Dawn"
                        /\ t0 <= up[1].time /\ up[1].time < t1
                        /\ elev(up[1].time) <= angle /\ angle <= elev(up[1].time + 1)
                   ELSE up = <<>>
                /\ IF elev(t0) >= angle /\ angle >= elev(t1)
                   THEN /\ Len(down) = 1
                        /\ down[1].eventType = "Dusk"
                        /\ t0 <= down[1].time /\ down[1].time < t1
                        /\ elev(down[1].time) >= angle /\ angle >= elev(down[1].time + 1)
                   ELSE down = <<>>

\* a day with a sunrise and a sunset but no astronomical dawn or dusk
C18_Witness ==
    /\ eventsJustReturned /\ calendarDay
    /\ countOf(events, "Sunrise") = 1 /\ countOf(events, "Sunset") = 1
    /\ countOf(events, "Astro Dawn") = 0 /\ countOf(events, "Astro Dusk") = 0
    /\ \E i \in properPairs : Len(dawnOnPair(SUNRISE_ANGLE, i)) = 1 /\ duskOnPair(SUNRISE_ANGLE, i) = <<>>

----------------------------------------------------------------------------
cps == checkpoints(start, end)
slope(t) == derivative(lat, long, t)

\* what maxAndMin records for checkpoint interval i is as the claim says
extremumRecorded(i) ==
    LET t0 == cps[i]
        t1 == cps[i + 1]
        rec == extremumIn(lat, long, t0, t1)
    IN  IF slope(t0) >= 0 /\ slope(t1) < 0
        THEN /\ Len(rec) = 1
             /\ t0 <= rec[1] /\ rec[1] <= t1
             /\ slope(rec[1]) >= 0 /\ slope(rec[1] + 1) < 0
        ELSE IF slope(t0) <= 0 /\ slope(t1) > 0
        THEN /\ Len(rec) = 1
             /\ t0 <= rec[1] /\ rec[1] <= t1
             /\ slope(rec[1]) <= 0 /\ slope(rec[1] + 1) > 0
        ELSE rec = <<>>

(* C19: when the derivative is >= 0 at one checkpoint and < 0 at the next, *)
(* maxAndMin records an integer t in that interval with derivative(t) >= 0 *)
(* and derivative(t + 1) < 0; when it is <= 0 and then > 0, it records t   *)
(* with derivative(t) <= 0 and derivative(t + 1) > 0; an interval with     *)
(* neither pattern contributes no time.                                     *)
C19_ExtremaRecorded ==
    (eventsJustReturned /\ start < end) => \A i \in 1 .. 6 : extremumRecorded(i)

(* C19 as amended: the same for a window of at least 20 hours, so that     *)
(* every checkpoint interval runs forward in time.                          *)
C19_ExtremaRecordedInDayWindow ==
    (eventsJustReturned /\ start + 20 * MS_PER_HOUR <= end) =>
        /\ \A i \in 1 .. 6 : extremumRecorded(i)
        /\ maxMin = <<start>> \o flatten([i \in 1 .. 6 |-> extremumIn(lat, long, cps[i], cps[i + 1])])
                    \o <<end>>

\* a day window with a maximum, a minimum and an interval without either
C19_Witness ==
    /\ eventsJustReturned /\ start + 20 * MS_PER_HOUR <= end
    /\ \E i \in 1 .. 6 : slope(cps[i]) >= 0 /\ slope(cps[i + 1]) < 0
    /\ \E i \in 1 .. 6 : slope(cps[i]) <= 0 /\ slope(cps[i + 1]) > 0
    /\ \E i \in 1 .. 6 : extremumIn(lat, long, cps[i], cps[i + 1]) = <<>>
    /\ Len(maxMin) = 4

----------------------------------------------------------------------------
dawnDuskEvents == SelectSeq(events, isDawnDusk)

\* gap i of the series (0 before the first dawn/dusk event, n after the
\* last): its first and last instant and the regime intervals() pushes it to
gapOf(i) ==
    LET n == Len(dawnDuskEvents)
    IN  [lo |-> IF i = 0 THEN start ELSE dawnDuskEvents[i].time + 1,
         hi |-> IF i = n THEN end - 1 ELSE dawnDuskEvents[i + 1].time,
         regime |-> intervalPushes(dawnDuskEvents, tz)[i + 1][1],
         span |-> intervalPushes(dawnDuskEvents, tz)[i + 1][2]]

\* the instants of a gap at which the elevation is examined: its ends, its
\* middle and every extremum of the elevation inside it
samplesOf(g) ==
    {g.lo, g.hi, midpoint(g.lo, g.hi)}
        \cup {maxMin[k] : k \in {j \in DOMAIN maxMin : g.lo <= maxMin[j] /\ maxMin[j] <= g.hi}}

\* elevation e lies in regime r, a threshold counting for both its sides
occupies(r, e) == regimeOfElevation(e) = r \/ regimeOfElevation(e - 1) = r

(* C20: every gap that intervals() assigns (before the first dawn/dusk     *)
(* event, between two consecutive ones, after the last one) is placed in   *)
(* the regime that the sun's elevation occupies throughout that gap.       *)
C20_GapsInActualRegime ==
    (pc = "ints" /\ outcome = "returned" /\ dawnDuskEvents # <<>> /\ start < end) =>
        \A i \in 0 .. Len(dawnDuskEvents) :
            LET g == gapOf(i)
            IN  /\ \E k \in DOMAIN ints[g.regime + 1] : ints[g.regime + 1][k] = g.span
                /\ g.lo <= g.hi => \A t \in samplesOf(g) : occupies(g.regime, elev(t))

\* a calendar day whose gaps fall in all five regimes, the first and the
\* last gap being night, with the solar noon inside the day gap
C20_Witness ==
    /\ pc = "ints" /\ outcome = "returned" /\ calendarDay
    /\ Len(dawnDuskEvents) = 8
    /\ gapOf(0).regime = 4 /\ gapOf(8).regime = 4 /\ gapOf(8).lo < gapOf(8).hi
    /\ \E i \in 1 .. 7 : /\ gapOf(i).regime = 0
                          /\ \E k \in DOMAIN maxMin : /\ gapOf(i).lo < maxMin[k]
                                                      /\ maxMin[k] < gapOf(i).hi
                                                      /\ maxMin[k] \in samplesOf(gapOf(i))
    /\ \A r \in 0 .. 4 : \E i \in 0 .. 8 : gapOf(i).regime = r

----------------------------------------------------------------------------
(* C21: for a day window with start + 20 h < end, maxAndMin returns a list *)
(* in non-decreasing order whose first element is start and whose last     *)
(* element is end, every element in between being a refined extremum time  *)
(* in [start, end).                                                         *)
C21_MaxMinAscending ==
    (eventsJustReturned /\ start + 20 * MS_PER_HOUR < end) =>
        LET n == Len(maxMin)
        IN  /\ n >= 2
            /\ maxMin[1] = start
            /\ maxMin[n] = end
            /\ \A i \in 1 .. n - 1 : maxMin[i] <= maxMin[i + 1]
            /\ \A i \in 2 .. n - 1 :
                  /\ start <= maxMin[i] /\ maxMin[i] < end
                  /\ \/ slope(maxMin[i]) >= 0 /\ slope(maxMin[i] + 1) < 0
                     \/ slope(maxMin[i]) <= 0 /\ slope(maxMin[i] + 1) > 0

\* a 25-hour day with a minimum and a maximum between its ends
C21_Witness ==
    /\ eventsJustReturned /\ end - start = 25 * MS_PER_HOUR
    /\ Len(maxMin) = 4
    /\ slope(maxMin[2]) <= 0 /\ slope(maxMin[2] + 1) > 0
    /\ slope(maxMin[3]) >= 0 /\ slope(maxMin[3] + 1) < 0

----------------------------------------------------------------------------
\* the list maxAndMin returns when it tests the first k intervals of its
\* sampling points for a sign change
maxMinOver(k) ==
    <<start>> \o flatten([i \in 1 .. k |-> extremumIn(lat, long, cps[i], cps[i + 1])]) \o <<end>>

(* C24: maxAndMin samples the elevation derivative at 9 points (the day's  *)
(* start, the interior checkpoints and the day's end), giving 8            *)
(* consecutive intervals that are each tested for a sign change.            *)
C24_NinePointsEightIntervals ==
    eventsJustReturned => (Len(cps) = 9 /\ maxMin = maxMinOver(8))

(* C24 as amended: the derivative is sampled at 7 points (the start, the   *)
(* five checkpoints start + 4 h, ..., start + 20 h, and the end), giving 6 *)
(* consecutive intervals that are each tested for a sign change.            *)
C24_SevenPointsSixIntervals ==
    eventsJustReturned =>
        /\ Len(cps) = 7
        /\ cps[1] = start /\ cps[7] = end
        /\ \A i \in 2 .. 6 : cps[i] = start + 4 * (i - 1) * MS_PER_HOUR
        /\ maxMin = maxMinOver(6)

\* a day whose maximum is found in the sixth and last interval
C24_Witness ==
    /\ eventsJustReturned /\ start + 20 * MS_PER_HOUR < end
    /\ slope(cps[6]) >= 0 /\ slope(cps[7]) < 0
    /\ extremumIn(lat, long, cps[6], cps[7]) # <<>>
    /\ maxMin[Len(maxMin) - 1] > cps[6]

----------------------------------------------------------------------------
\* y2 / 2 lies in one of the spans, whichever way round their ends are
inSpans(spans, y2) ==
    \E k \in DOMAIN spans :
        /\ 2 * Min2(spans[k][1], spans[k][2]) <= y2
        /\ y2 <= 2 * Max2(spans[k][1], spans[k][2])

\* the whole and the half values of y the inputs can cover, doubled
HalfSteps == 0 .. 4

(* C23: for any list of spans (unsorted, overlapping, touching or with     *)
(* endpoints reversed), normalizeSpans returns spans with start <= end,    *)
(* sorted by start, each start strictly greater than the previous span's   *)
(* end, whose union is the union of the input spans; normalizeSpans of its *)
(* own output is that output.                                               *)
C23_NormalizeSpansCanonical ==
    (pc = "done" /\ call.fn = "intervalsToPolygon") =>
        \A x \in DOMAIN call.intervals :
            LET spans == call.intervals[x]
                out == normalizeSpans(spans)
            IN  /\ \A k \in DOMAIN out : out[k][1] <= out[k][2]
                /\ \A k \in 1 .. Len(out) - 1 : out[k + 1][1] > out[k][2]
                /\ \A y2 \in HalfSteps : inSpans(out, y2) <=> inSpans(spans, y2)
                /\ normalizeSpans(out) = out

\* three spans, one reversed, one touching the next, merged into one
C23_Witness ==
    /\ pc = "done" /\ call.fn = "intervalsToPolygon"
    /\ call.intervals = <<<<<<2, 1>>, <<0, 1>>, <<1, 1>>>>>>
    /\ normalizeSpans(call.intervals[1]) = <<<<0, 2>>>>

----------------------------------------------------------------------------
\* the normalized columns of the call, and the spans left and right of the
\* column boundary x (0 .. W)
colsOfCall == [x \in DOMAIN call.intervals |-> normalizeSpans(call.intervals[x])]
leftOf(x) == IF x > 0 THEN colsOfCall[x] ELSE <<>>
rightOf(x) == IF x < Len(colsOfCall) THEN colsOfCall[x + 1] ELSE <<>>

\* the vertical segments of the call on the boundary x, as spans
verticalAt(x) ==
    LET on == SelectSeq(call.segs, LAMBDA sg : sg.a[1] = x /\ sg.b[1] = x)
    IN  [k \in DOMAIN on |-> <<on[k].a[2], on[k].b[2]>>]

\* the middles of the unit cells of y, doubled
CellMiddles == {1, 3}

(* C22: the vertical segments generated between two adjacent columns cover *)
(* exactly the y-ranges that lie in exactly one of the two span lists;     *)
(* every generated segment has positive length, and two identical          *)
(* adjacent columns generate no vertical segment.                           *)
C22_VerticalSegmentsAreSymmetricDifference ==
    (pc = "done" /\ call.fn = "intervalsToPolygon") =>
        \A x \in 0 .. Len(colsOfCall) :
            /\ verticalAt(x) = xorSpans(leftOf(x), rightOf(x))
            /\ \A y2 \in CellMiddles :
                  inSpans(verticalAt(x), y2) <=> (inSpans(leftOf(x), y2) # inSpans(rightOf(x), y2))
            /\ \A k \in DOMAIN verticalAt(x) : verticalAt(x)[k][1] < verticalAt(x)[k][2]
            /\ leftOf(x) = rightOf(x) => verticalAt(x) = <<>>

----------------------------------------------------------------------------
(* C25: for every window, allSunEvents returns at least one Solar Noon or  *)
(* Solar Midnight event, because solarNoon and solarMidnight never both    *)
(* return no event; so a series without dawn/dusk events still has a first *)
(* event to read an elevation from.                                         *)
C25_NoonOrMidnightPresent ==
    (pc = "done" /\ entry \in {"solarNoon", "solarMidnight"}) =>
        LET noons == solarNoon(lat, long, start, end)
            midnights == solarMidnight(lat, long, start, end)
            series == sortByTime(midnights \o noons)
        IN  /\ ~(noons = <<>> /\ midnights = <<>>)
            /\ series # <<>>
            /\ \A i \in DOMAIN series :
                  /\ ~isDawnDusk(series[i])
                  /\ series[i].solarElevation = sunPosition(lat, long, series[i].time)

\* a window without a solar noon, whose series still holds a solar midnight
C25_Witness ==
    /\ pc = "done" /\ entry = "solarNoon" /\ events = <<>>
    /\ Len(solarMidnight(lat, long, start, end)) = 1

----------------------------------------------------------------------------
(* C26: for every series produced by allSunEvents, intervalsSvg never      *)
(* processes a Sunset, Civil Dusk, Nautical Dusk or Astro Dusk while the   *)
(* interval list of that event's band is still empty, so it never writes   *)
(* an end time through a missing last interval.                             *)
C26_DuskFindsOpenInterval ==
    (pc = "svg") =>
        /\ outcome = "returned"
        /\ ~intervalsSvg(events, tz).threw
        /\ \A i \in 2 .. Len(dawnDuskEvents) :
              ~isDawnType(dawnDuskEvents[i].eventType) =>
                  \/ \E k \in 1 .. i - 1 : /\ isDawnType(dawnDuskEvents[k].eventType)
                                           /\ bandOf(dawnDuskEvents[k].eventType) = bandOf(dawnDuskEvents[i].eventType)
                  \/ bandOf(dawnDuskEvents[1].eventType) <= bandOf(dawnDuskEvents[i].eventType)

\* a series that begins with a sunset, whose later dusks end the whole-day
\* intervals pushed for the first event
C26_Witness ==
    /\ pc = "svg" /\ outcome = "returned"
    /\ Len(dawnDuskEvents) >= 4
    /\ dawnDuskEvents[1].eventType = "Sunset"
    /\ dawnDuskEvents[4].eventType = "Astro Dusk"
    /\ call.result[4][1][1] = 0

----------------------------------------------------------------------------
\* the edges a walk traverses, each as the set of its two end points: the
\* seed edge, one edge per step, and the closing edge of a closed walk
edgesOf(w) ==
    [i \in 1 .. Len(w.polygon) - 1 |-> {w.polygon[i], w.polygon[i + 1]}]
    \o (IF w.closed THEN <<{w.polygon[Len(w.polygon)], w.polygon[1]}>> ELSE <<>>)

\* how often the walks of the call traverse the edge e
traversals(e) ==
    Len(SelectSeq(flatten([r \in DOMAIN call.every |-> edgesOf(call.every[r])]), LAMBDA f : f = e))

(* C27: every generated boundary segment, each vertical segment and each  *)
(* bottom or top cap, is traversed by exactly one walk, never twice and    *)
(* never left unvisited: an edge is traversed as often as segments were    *)
(* generated on it, and the stitching takes at most as many steps as there *)
(* are segments.                                                            *)
C27_EachSegmentWalkedOnce ==
    (pc = "done" /\ call.fn = "intervalsToPolygon") =>
        /\ \A i \in DOMAIN call.segs :
              LET e == {call.segs[i].a, call.segs[i].b}
              IN  traversals(e) = Cardinality({j \in DOMAIN call.segs : {call.segs[j].a, call.segs[j].b} = e})
        /\ Len(flatten([r \in DOMAIN call.every |-> edgesOf(call.every[r])])) <= Len(call.segs)

----------------------------------------------------------------------------
(* C28: for every event series and time zone argument, lengths() returns   *)
(* <<t0, t1, t2, t3>> where tk is the total duration of the spans that     *)
(* intervals() assigns to regimes 0 .. k for the same series, so that      *)
(* 0 <= t0 <= t1 <= t2 <= t3 <= 86 400 000.                                 *)
C28_LengthsAreRegimeTotals ==
    (pc = "lengths" /\ outcome = "returned") =>
        /\ \A k \in 0 .. 3 : call.result[k + 1] = totalLength(regimesUpTo(call.regimes, k))
        /\ 0 <= call.result[1]
        /\ \A k \in 1 .. 3 : call.result[k] <= call.result[k + 1]
        /\ call.result[4] <= DAY_LENGTH

----------------------------------------------------------------------------
\* the dawn events, from the lowest threshold up, and the dusk events, from
\* the highest threshold down, that the searches find in pair i of maxMin
dawnsInPair(i) ==
    LET pair == <<maxMin[i], maxMin[i + 1]>>
    IN  astroDawn(lat, long, pair) \o nauticalDawn(lat, long, pair)
        \o civilDawn(lat, long, pair) \o sunrise(lat, long, pair)

dusksInPair(i) ==
    LET pair == <<maxMin[i], maxMin[i + 1]>>
    IN  sunset(lat, long, pair) \o civilDusk(lat, long, pair)
        \o nauticalDusk(lat, long, pair) \o astroDusk(lat, long, pair)

(* C29: the dawn events found in one rising bracket satisfy                *)
(* AstroDawn.time <= NauticalDawn.time <= CivilDawn.time <= Sunrise.time,  *)
(* and the dusk events found in one falling bracket satisfy                *)
(* Sunset.time <= CivilDusk.time <= NauticalDusk.time <= AstroDusk.time    *)
(* (the elevation of the model is monotone between consecutive extrema).   *)
C29_ThresholdOrderInBracket ==
    eventsJustReturned =>
        \A i \in properPairs :
            LET dawns == dawnsInPair(i)
                dusks == dusksInPair(i)
            IN  /\ \A j, k \in DOMAIN dawns : j < k => dawns[j].time <= dawns[k].time
                /\ \A j, k \in DOMAIN dusks : j < k => dusks[j].time <= dusks[k].time

\* a rising bracket with all four dawns at four different times, followed
\* by a falling bracket with all four dusks
C29_Witness ==
    /\ eventsJustReturned
    /\ \E i \in properPairs :
          /\ Len(dawnsInPair(i)) = 4
          /\ \A j \in 1 .. 3 : dawnsInPair(i)[j].time < dawnsInPair(i)[j + 1].time
          /\ i + 1 \in properPairs
          /\ Len(dusksInPair(i + 1)) = 4
          /\ dusksInPair(i + 1)[1].eventType = "Sunset"
          /\ dusksInPair(i + 1)[1].time < dusksInPair(i + 1)[4].time

----------------------------------------------------------------------------
(* C30: dawn and dusk never modify the maxMin list they receive: a search  *)
(* bisects on its own t0 and t1, no step of it changes the list, and when  *)
(* it returns the list still holds the extrema as maxAndMin returned them, *)
(* so the next search of allSunEvents starts from the same list.            *)
C30_SearchLeavesMaxMin ==
    /\ [][(pc = "loop" /\ loop.kind \in {"dawn", "dusk"}) => maxMin' = maxMin]_vars
    /\ [](entry \in {"dawn", "dusk"} => maxMin = maxAndMin(lat, long, start, end))

\* a dusk search that has returned a time inside its bracket, both ends of
\* the bracket in maxMin being where they were
C30_Witness ==
    /\ pc = "done" /\ entry = "dusk"
    /\ loop.n > 0
    /\ maxMin[loop.i] < loop.t0
    /\ loop.t1 < maxMin[loop.i + 1]
    /\ maxMin = maxAndMin(lat, long, start, end)

====
